---- MODULE Spec2Model ----
(***************************************************************************)
(* SerpApiClient (src/lib/serpapi-client.ts): the per-symbol freshness     *)
(* cache, fetchStockData, fetchMultipleStocks with its pacing timers, and  *)
(* the response normalizer parseGoogleFinanceResponse.                     *)
(*                                                                         *)
(* JavaScript runs one handler at a time: a handler is the code run from a *)
(* call, a lookup callback or a timer up to the next pending lookup or     *)
(* timer, the promise continuations (microtasks) it triggers included.     *)
(* Each action below is one such handler.                                  *)
(***************************************************************************)
EXTENDS Integers, Sequences, FiniteSets, TLC

\* ------------------------------------------------------------------ bounds
MaxCalls == 2          \* direct fetchStockData calls in one behaviour
MaxClears == 1         \* clearCache calls in one behaviour
MaxNow == 30000        \* the clock stops advancing here (cache specification)
MaxSymbols == 4        \* symbols in one fetchMultipleStocks call
MaxPaceNow == 1900     \* the clock stops advancing here (batch specification)
MaxFields == 2         \* fields set in a raw response (normalizer specification)
RandDen == 1000        \* the random source yields d / RandDen, d in 0..RandDen-1

\* ------------------------------------------------------- program constants
CACHE_DURATION == 15000
batchSize == 3
RequestDelay == 300
BatchDelay == 1000

Symbols == {"HDFCBANK.NS", "INFY.NS"}

\* ------------------------------------------------------ JavaScript values
Undefined == [type |-> "undefined"]
Null == [type |-> "null"]
Num(n) == [type |-> "number", val |-> n]
Str(s) == [type |-> "string", val |-> s]
Obj(f) == [type |-> "object", fields |-> f]

\* ToBoolean: undefined, null, 0 and "" are falsy; objects are truthy.
Truthy(v) ==
  CASE v.type = "undefined" -> FALSE
    [] v.type = "null" -> FALSE
    [] v.type = "number" -> v.val # 0
    [] v.type = "string" -> v.val # ""
    [] OTHER -> TRUE

\* a || b
Or(a, b) == IF Truthy(a) THEN a ELSE b

\* o.f on an object: undefined when the property is missing.
Get(o, f) == IF f \in DOMAIN o.fields THEN o.fields[f] ELSE Undefined

\* o?.f
OptGet(o, f) == IF o.type \in {"undefined", "null"} THEN Undefined ELSE Get(o, f)

\* ------------------------------------------------------------- normalizer
\* The mutants of parseGoogleFinanceResponse used by the claims.
ParseSummaryFirst(symbol, response, t) ==
  LET data == Or(Get(response, "summary"), Get(response, "knowledge_graph"))
      financials == Get(response, "financials")
  IN IF ~Truthy(data) THEN Null
     ELSE [symbol |-> symbol,
           price |-> Or(Get(data, "price"), Num(0)),
           change |-> Or(Get(data, "change"), Num(0)),
           changePercent |-> Or(Get(data, "change_percent"), Num(0)),
           peRatio |-> Or(OptGet(financials, "pe_ratio"), Get(data, "pe_ratio")),
           marketCap |-> Or(OptGet(financials, "market_cap"), Get(data, "market_cap")),
           earnings |-> Or(OptGet(financials, "net_income"), Get(data, "earnings")),
           revenue |-> Or(OptGet(financials, "revenue"), Get(data, "revenue")),
           lastUpdated |-> t]

ParseNeedsDetailed(symbol, response, t) ==
  LET data == Get(response, "knowledge_graph")
      financials == Get(response, "financials")
  IN IF ~Truthy(data) THEN Null
     ELSE [symbol |-> symbol,
           price |-> Or(Get(data, "price"), Num(0)),
           change |-> Or(Get(data, "change"), Num(0)),
           changePercent |-> Or(Get(data, "change_percent"), Num(0)),
           peRatio |-> Or(OptGet(financials, "pe_ratio"), Get(data, "pe_ratio")),
           marketCap |-> Or(OptGet(financials, "market_cap"), Get(data, "market_cap")),
           earnings |-> Or(OptGet(financials, "net_income"), Get(data, "earnings")),
           revenue |-> Or(OptGet(financials, "revenue"), Get(data, "revenue")),
           lastUpdated |-> t]

\* parseGoogleFinanceResponse(symbol, response), called at time t.  Nothing in
\* its try block can throw on a payload object, so the catch is never taken.
parseGoogleFinanceResponse(symbol, response, t) ==
  LET data == Or(Get(response, "knowledge_graph"), Get(response, "summary"))
      financials == Get(response, "financials")
  IN IF ~Truthy(data) THEN Null
     ELSE [symbol |-> symbol,
           price |-> Or(Get(data, "price"), Num(0)),
           change |-> Or(Get(data, "change"), Num(0)),
           changePercent |-> Or(Get(data, "change_percent"), Num(0)),
           peRatio |-> Or(OptGet(financials, "pe_ratio"), Get(data, "pe_ratio")),
           marketCap |-> Or(OptGet(financials, "market_cap"), Get(data, "market_cap")),
           earnings |-> Or(OptGet(financials, "net_income"), Get(data, "earnings")),
           revenue |-> Or(OptGet(financials, "revenue"), Get(data, "revenue")),
           lastUpdated |-> t]

\* ---------------------------------------------------------- raw responses
\* GoogleFinanceResponse: three optional blocks, every field optional.  The
\* currency fields are never read and are left out.
ShapeFields ==
  [knowledge_graph |-> {"price", "change", "change_percent", "pe_ratio",
                        "market_cap", "earnings", "revenue"},
   summary |-> {"price", "change", "change_percent"},
   financials |-> {"pe_ratio", "market_cap", "revenue", "net_income"}]

Shapes == DOMAIN ShapeFields

NumericFields == {"price", "change", "change_percent", "pe_ratio"}

AllFields == UNION {{<<sh, f>> : f \in ShapeFields[sh]} : sh \in Shapes}

ShapeNo(sh) ==
  CASE sh = "knowledge_graph" -> 100
    [] sh = "summary" -> 200
    [] OTHER -> 300

FieldNo(f) ==
  CASE f = "price" -> 1
    [] f = "change" -> 2
    [] f = "change_percent" -> 3
    [] f = "pe_ratio" -> 4
    [] f = "market_cap" -> 5
    [] f = "earnings" -> 6
    [] f = "revenue" -> 7
    [] OTHER -> 8

\* The value a field carries: a zero or empty (falsy) one, or one that tells
\* which block and field it came from (a number, or its digits as a string).
FieldValue(sh, f, falsy) ==
  IF f \in NumericFields
    THEN (IF falsy THEN Num(0) ELSE Num(ShapeNo(sh) + FieldNo(f)))
    ELSE (IF falsy THEN Str("") ELSE Str(ToString(ShapeNo(sh) + FieldNo(f))))

\* The response with the blocks `present`, the fields `set` and, of these,
\* the fields `falsy` holding 0 or "".
MakeResponse(present, set, falsy) ==
  Obj([sh \in present |->
        Obj([f \in {g \in ShapeFields[sh] : <<sh, g>> \in set} |->
              FieldValue(sh, f, <<sh, f>> \in falsy)])])

FieldsOf(present) == {p \in AllFields : p[1] \in present}

SmallSets(S) == {T \in SUBSET S : Cardinality(T) <= MaxFields}

RawResponses ==
  UNION {UNION {{MakeResponse(present, set, falsy) : falsy \in SUBSET set} :
                  set \in SmallSets(FieldsOf(present))} :
           present \in SUBSET Shapes}

\* The payloads the upstream lookup delivers in the client specifications:
\* neither shape, a summary quote, a detailed quote with financials.
EmptyPayload == MakeResponse({"financials"}, {<<"financials", "pe_ratio">>}, {})
SummaryPayload ==
  MakeResponse({"summary"},
               {<<"summary", "price">>, <<"summary", "change">>,
                <<"summary", "change_percent">>}, {})
DetailedPayload ==
  MakeResponse({"knowledge_graph", "financials"},
               {<<"knowledge_graph", "price">>, <<"knowledge_graph", "pe_ratio">>,
                <<"financials", "pe_ratio">>, <<"financials", "net_income">>}, {})
Payloads == {EmptyPayload, SummaryPayload}
BatchPayloads == {SummaryPayload}

\* ------------------------------------------------------------------ state
VARIABLES
  now,     \* Date.now()
  cache,   \* SerpApiClient.cache: symbol -> [data, timestamp], keys = DOMAIN
  calls,   \* the fetchStockData invocations so far, with their locals
  read,    \* what getCachedData returned, while it is the latest operation
  epoch,   \* how many times clearCache has run
  fm,      \* the fetchMultipleStocks invocation
  norm,    \* the normalizer under test: its arguments and its result
  fallback \* getFallbackStockData under test: its arguments and its result

vars == <<now, cache, calls, read, epoch, fm, norm, fallback>>

EmptyMap == [s \in {} |-> Undefined]

\* ------------------------------------------------------------ the cache
\* this.cache.get(symbol)
CacheGet(s) == IF s \in DOMAIN cache THEN cache[s] ELSE Undefined

\* this.cache.set(symbol, entry)
MapSet(m, k, v) == [x \in DOMAIN m \cup {k} |-> IF x = k THEN v ELSE m[x]]

CacheHitInclusive(cached, t) ==
  cached # Undefined /\ t - cached.timestamp <= CACHE_DURATION

CacheHitInverted(cached, t) ==
  cached # Undefined /\ t - cached.timestamp > CACHE_DURATION

\* fetchStockData's test: cached && Date.now() - cached.timestamp < CACHE_DURATION
CacheHit(cached, t) ==
  cached # Undefined /\ t - cached.timestamp < CACHE_DURATION

RelaxedHitStrictTtl(cached, t) ==
  cached # Undefined /\ t - cached.timestamp < CACHE_DURATION

RelaxedHitHalved(cached, t) ==
  cached # Undefined /\ t - cached.timestamp < CACHE_DURATION \div 2

\* getCachedData's test: ... < CACHE_DURATION * 2
RelaxedHit(cached, t) ==
  cached # Undefined /\ t - cached.timestamp < CACHE_DURATION * 2

\* What getCachedData(s) returns at time t.
GetCachedResult(s, t) ==
  LET cached == CacheGet(s)
  IN IF RelaxedHit(cached, t) THEN cached.data ELSE Null

\* --------------------------------------------------------- fetchStockData
\* The invocation record of fetchStockData(symbol) after its synchronous
\* part: a cache hit returns at once, a miss issues getJson and awaits the
\* callback.  owner is 0 for a direct call and the 1-based position in the
\* input for a call made by fetchMultipleStocks.  start is the time of the
\* call; endEpoch is the number of clearCache calls before it returned.
FetchCall(symbol, owner) ==
  LET cached == CacheGet(symbol)
      hit == CacheHit(cached, now)
  IN [symbol |-> symbol, owner |-> owner, cached |-> cached,
      looked |-> ~hit,
      pc |-> IF hit THEN "returned" ELSE "await",
      response |-> Undefined,
      result |-> IF hit THEN cached.data ELSE Undefined,
      start |-> now, endEpoch |-> epoch]

\* The value fetchStockData returns once the callback delivered json: a falsy
\* json rejects the promise, the catch logs and returns null.
StockDataOf(symbol, json, t) ==
  IF Truthy(json) THEN parseGoogleFinanceResponse(symbol, json, t) ELSE Null

CacheAfterAlwaysSet(c0, symbol, stockData, t) ==
  MapSet(c0, symbol, [data |-> stockData, timestamp |-> t])

CacheAfterOnlyEntry(c0, symbol, stockData, t) ==
  IF stockData # Null
    THEN MapSet(EmptyMap, symbol, [data |-> stockData, timestamp |-> t])
    ELSE c0

CacheAfterDropOnFailure(c0, symbol, stockData, t) ==
  IF stockData # Null
    THEN MapSet(c0, symbol, [data |-> stockData, timestamp |-> t])
    ELSE [s \in DOMAIN c0 \ {symbol} |-> c0[s]]

\* if (stockData) this.cache.set(symbol, {data, timestamp: Date.now()})
CacheAfter(c0, symbol, stockData, t) ==
  IF stockData # Null
    THEN MapSet(c0, symbol, [data |-> stockData, timestamp |-> t])
    ELSE c0

\* ---------------------------------------------------- fetchMultipleStocks
Min(a, b) == IF a < b THEN a ELSE b

IdleFm ==
  [pc |-> "idle", symbols |-> <<>>, i |-> 0, results |-> EmptyMap,
   slots |-> <<>>, timer |-> 0, start |-> 0, end |-> 0, batches |-> 0]

ResultsAfterAlwaysSet(results, symbol, data) == MapSet(results, symbol, data)

\* if (data) results.set(symbol, data)
ResultsAfter(results, symbol, data) ==
  IF data # Null THEN MapSet(results, symbol, data) ELSE results

\* symbols.slice(i, i + batchSize)
BatchOf(symbols, i) == SubSeq(symbols, i + 1, Min(i + batchSize, Len(symbols)))

BatchCallsDeduped(symbols, i) ==
  [k \in 1..Len(BatchOf(symbols, i)) |->
     LET call == FetchCall(BatchOf(symbols, i)[k], i + k)
     IN IF \E j \in 1..(k - 1) : BatchOf(symbols, i)[j] = BatchOf(symbols, i)[k]
          THEN [call EXCEPT !.looked = FALSE]
          ELSE call]

\* The calls batch.map starts, in input order, all against the same cache.
BatchCalls(symbols, i) ==
  [k \in 1..Len(BatchOf(symbols, i)) |-> FetchCall(BatchOf(symbols, i)[k], i + k)]

\* results after the continuations of the first k calls that hit the cache.
RECURSIVE ResultsOfHits(_, _, _)
ResultsOfHits(results, newCalls, k) ==
  IF k = 0 THEN results
  ELSE LET before == ResultsOfHits(results, newCalls, k - 1)
       IN IF newCalls[k].pc = "returned"
            THEN ResultsAfter(before, newCalls[k].symbol, newCalls[k].result)
            ELSE before

\* One loop iteration from `const batch = ...` to `await Promise.all`: every
\* fetch of the batch starts; a call that hit the cache has stored its result
\* and armed its 300 timer before anything else runs.
StartBatch(f, i) ==
  LET newCalls == BatchCalls(f.symbols, i)
  IN /\ calls' = calls \o newCalls
     /\ fm' = [f EXCEPT
          !.pc = "batch",
          !.i = i,
          !.batches = f.batches + 1,
          !.results = ResultsOfHits(f.results, newCalls, Len(newCalls)),
          !.slots = [k \in 1..Len(newCalls) |->
                       IF newCalls[k].pc = "returned"
                         THEN [pc |-> "delay", deadline |-> now + RequestDelay]
                         ELSE [pc |-> "fetch", deadline |-> 0]]]

\* fetchMultipleStocks(symbols) up to its first await.
FetchMultipleStocks(symbols) ==
  /\ fm.pc = "idle"
  /\ IF Len(symbols) = 0
       THEN /\ fm' = [IdleFm EXCEPT !.pc = "returned", !.start = now, !.end = now]
            /\ calls' = calls
       ELSE StartBatch([IdleFm EXCEPT !.symbols = symbols, !.start = now], 0)
  /\ UNCHANGED <<now, cache, read, epoch, norm, fallback>>

FmAfterFetchDelayOnSuccess(f, owner, symbol, data) ==
  IF data # Null
    THEN [f EXCEPT !.results = MapSet(f.results, symbol, data),
                   !.slots[owner - f.i] = [pc |-> "delay",
                                           deadline |-> now + RequestDelay]]
    ELSE f

\* The closure of batch.map after `await this.fetchStockData(symbol)`.
FmAfterFetch(f, owner, symbol, data) ==
  [f EXCEPT !.results = ResultsAfter(f.results, symbol, data),
            !.slots[owner - f.i] = [pc |-> "delay", deadline |-> now + RequestDelay]]

\* The getJson callback of call c delivering json, and everything that runs
\* before the next lookup or timer: the promise settles, the response is
\* parsed and cached, fetchStockData returns, and the caller's continuation
\* (in fetchMultipleStocks: results.set and the 300 timer) runs.
LookupCallback(c, json) ==
  /\ calls[c].pc = "await"
  /\ LET symbol == calls[c].symbol
         stockData == StockDataOf(symbol, json, now)
     IN /\ cache' = CacheAfter(cache, symbol, stockData, now)
        /\ calls' = [calls EXCEPT ![c].pc = "returned",
                                  ![c].response = json,
                                  ![c].result = stockData,
                                  ![c].endEpoch = epoch]
        /\ fm' = IF calls[c].owner = 0 THEN fm
                 ELSE FmAfterFetch(fm, calls[c].owner, symbol, stockData)
  /\ read' = Undefined
  /\ UNCHANGED <<now, epoch, norm, fallback>>

\* A direct call of fetchStockData(symbol).
FetchStockData(symbol) ==
  /\ Len(calls) < MaxCalls
  /\ calls' = Append(calls, FetchCall(symbol, 0))
  /\ read' = Undefined
  /\ UNCHANGED <<now, cache, epoch, fm, norm, fallback>>

\* getCachedData(symbol).  read holds the returned value until the client's
\* next operation, which drops it.
GetCachedData(symbol) ==
  /\ read' = [symbol |-> symbol, at |-> now, epoch |-> epoch,
              cached |-> CacheGet(symbol),
              result |-> GetCachedResult(symbol, now)]
  /\ UNCHANGED <<now, cache, calls, epoch, fm, norm, fallback>>

ClearedKeepsEntries == cache

\* this.cache.clear()
Cleared == EmptyMap

\* clearCache()
ClearCache ==
  /\ epoch < MaxClears
  /\ cache' = Cleared
  /\ epoch' = epoch + 1
  /\ read' = Undefined
  /\ UNCHANGED <<now, calls, fm, norm, fallback>>

\* Time passes: just under one strict TTL, or exactly one.
Deltas == {CACHE_DURATION - 1, CACHE_DURATION}

Tick ==
  /\ \E d \in Deltas : now + d <= MaxNow /\ now' = now + d
  /\ read' = Undefined
  /\ UNCHANGED <<cache, calls, epoch, fm, norm, fallback>>

Init ==
  /\ now = 0
  /\ cache = EmptyMap
  /\ calls = <<>>
  /\ read = Undefined
  /\ epoch = 0
  /\ fm = IdleFm
  /\ norm = [pc |-> "idle"]
  /\ fallback = [pc |-> "idle"]

Next ==
  \/ \E symbol \in Symbols : FetchStockData(symbol)
  \/ \E c \in DOMAIN calls, json \in Payloads \cup {Undefined} : LookupCallback(c, json)
  \/ \E symbol \in Symbols : GetCachedData(symbol)
  \/ ClearCache
  \/ Tick

Spec == Init /\ [][Next]_vars

\* ---------------------------------------------------- batch specification
AfterBatchNoDelay(f) ==
  IF f.i + batchSize < Len(f.symbols)
    THEN [f EXCEPT !.pc = "gap", !.timer = now]
    ELSE [f EXCEPT !.pc = "returned", !.end = now]

\* Promise.all(promises) resolved: the 1000 timer when more symbols remain,
\* else the loop ends and fetchMultipleStocks returns results.
AfterBatch(f) ==
  IF f.i + batchSize < Len(f.symbols)
    THEN [f EXCEPT !.pc = "gap", !.timer = now + BatchDelay]
    ELSE [f EXCEPT !.pc = "returned", !.end = now]

\* The 300 timer of slot k fires: its closure ends; when it was the last of
\* the batch, Promise.all resolves and the loop body continues.
RequestTimer(k) ==
  /\ fm.pc = "batch"
  /\ k \in DOMAIN fm.slots
  /\ fm.slots[k].pc = "delay"
  /\ now >= fm.slots[k].deadline
  /\ LET f == [fm EXCEPT !.slots[k] = [pc |-> "done", deadline |-> 0]]
     IN fm' = IF \A m \in DOMAIN f.slots : f.slots[m].pc = "done"
                THEN AfterBatch(f)
                ELSE f
  /\ UNCHANGED <<now, cache, calls, read, epoch, norm, fallback>>

\* The 1000 timer fires: i += batchSize and the next batch starts.
BatchTimer ==
  /\ fm.pc = "gap"
  /\ now >= fm.timer
  /\ StartBatch(fm, fm.i + batchSize)
  /\ UNCHANGED <<now, cache, read, epoch, norm, fallback>>

\* Time passes by one request delay or one batch delay while the call runs
\* (the clock reads 0 when fetchMultipleStocks is called).
PaceDeltas == {RequestDelay, BatchDelay}

PaceTick ==
  /\ fm.pc \in {"batch", "gap"}
  /\ \E d \in PaceDeltas : now + d <= MaxPaceNow /\ now' = now + d
  /\ UNCHANGED <<cache, calls, read, epoch, fm, norm, fallback>>

RECURSIVE SeqsUpTo(_)
SeqsUpTo(n) ==
  IF n = 0 THEN {<<>>}
  ELSE SeqsUpTo(n - 1) \cup [1..n -> Symbols]

Inputs == SeqsUpTo(MaxSymbols)

BatchNext ==
  \/ \E symbols \in Inputs : FetchMultipleStocks(symbols)
  \/ \E c \in DOMAIN calls, json \in BatchPayloads \cup {Undefined} : LookupCallback(c, json)
  \/ \E k \in 1..batchSize : RequestTimer(k)
  \/ BatchTimer
  \/ PaceTick

SpecBatch == Init /\ [][BatchNext]_vars

\* ---------------------------------------------------- order specification
\* The same call with lookups that answer differently from one another, and
\* a clock that moves from one armed timer to the next.
OrderPayloads == {SummaryPayload, DetailedPayload}

\* The deadlines of the timers that are armed and have not fired.
PendingDeadlines ==
  IF fm.pc = "batch"
    THEN {fm.slots[k].deadline :
            k \in {m \in DOMAIN fm.slots : fm.slots[m].pc = "delay"}}
  ELSE IF fm.pc = "gap" THEN {fm.timer}
  ELSE {}

NextDeadline ==
  CHOOSE d \in PendingDeadlines : \A e \in PendingDeadlines : d <= e

\* The event loop is idle until the earliest armed timer is due.
TimerTick ==
  /\ PendingDeadlines # {}
  /\ now < NextDeadline
  /\ now' = NextDeadline
  /\ UNCHANGED <<cache, calls, read, epoch, fm, norm, fallback>>

OrderNext ==
  \/ \E symbols \in Inputs : FetchMultipleStocks(symbols)
  \/ \E c \in DOMAIN calls, json \in OrderPayloads \cup {Undefined} : LookupCallback(c, json)
  \/ \E k \in 1..batchSize : RequestTimer(k)
  \/ BatchTimer
  \/ TimerTick

SpecOrder == Init /\ [][OrderNext]_vars

\* The order specification under the scheduling the claims on termination
\* assume: a lookup that is outstanding is answered, a timer that is due
\* fires, and the clock reaches the next deadline.
AnyLookupCallback ==
  \E c \in DOMAIN calls, json \in OrderPayloads \cup {Undefined} : LookupCallback(c, json)

AnyRequestTimer == \E k \in 1..batchSize : RequestTimer(k)

SpecLive ==
  /\ Init
  /\ [][OrderNext]_vars
  /\ WF_vars(AnyLookupCallback)
  /\ WF_vars(AnyRequestTimer)
  /\ WF_vars(BatchTimer)
  /\ WF_vars(TimerTick)

\* ------------------------------------------------- normalizer specification
NormInit ==
  /\ now = 0
  /\ cache = EmptyMap
  /\ calls = <<>>
  /\ read = Undefined
  /\ epoch = 0
  /\ fm = IdleFm
  /\ fallback = [pc |-> "idle"]
  /\ \E symbol \in Symbols, response \in RawResponses :
       norm = [pc |-> "call", symbol |-> symbol, response |-> response,
               out |-> Undefined]

Normalize ==
  /\ norm.pc = "call"
  /\ norm' = [norm EXCEPT !.pc = "done",
                          !.out = parseGoogleFinanceResponse(norm.symbol,
                                                             norm.response, now)]
  /\ UNCHANGED <<now, cache, calls, read, epoch, fm, fallback>>

NormNext == Normalize

SpecParse == NormInit /\ [][NormNext]_vars

\* ------------------------------------------------ getFallbackStockData
\* A symbol is its sequence of characters here, so that String.includes is
\* computed and not assumed.  A real number is an exact fraction <<n, d>>,
\* d > 0, in lowest terms: rounding is then the only place where a result
\* loses precision.  (IEEE doubles add an error many orders below the
\* hundredths that the rounding keeps.)
RECURSIVE Gcd(_, _)
Gcd(a, b) == IF b = 0 THEN a ELSE Gcd(b, a % b)

Abs(n) == IF n < 0 THEN -n ELSE n

Frac(n, d) == LET g == Gcd(Abs(n), d) IN <<n \div g, d \div g>>

Whole(n) == <<n, 1>>

FAdd(x, y) ==
  LET g == Gcd(x[2], y[2])
  IN Frac(x[1] * (y[2] \div g) + y[1] * (x[2] \div g), (x[2] \div g) * y[2])

FSub(x, y) == FAdd(x, <<-y[1], y[2]>>)

\* Cross-reduced first, so that the products stay small.
FMul(x, y) ==
  LET g1 == Gcd(Abs(x[1]), y[2])
      g2 == Gcd(Abs(y[1]), x[2])
  IN Frac((x[1] \div g1) * (y[1] \div g2), (x[2] \div g2) * (y[2] \div g1))

\* x / y for y > 0
FDiv(x, y) == FMul(x, <<y[2], y[1]>>)

FLess(x, y) == x[1] * y[2] < y[1] * x[2]

\* Math.max(x, y)
FMax(x, y) == IF FLess(x, y) THEN y ELSE x

\* Math.round(x) (and toFixed(0) on a positive x): the nearest integer, a
\* half rounding up.
MathRound(x) ==
  LET q == x[1] \div x[2]
      r == x[1] % x[2]
  IN IF 2 * r >= x[2] THEN q + 1 ELSE q

\* Math.round(x * scale) / scale, kept as the fraction <<units, scale>>.
RoundTo(x, scale) == <<MathRound(FMul(x, Whole(scale))), scale>>

\* haystack.includes(needle)
Includes(haystack, needle) ==
  \E k \in 1..(Len(haystack) - Len(needle) + 1) :
    SubSeq(haystack, k, k + Len(needle) - 1) = needle

\* basePrices
basePricesTable == {
   <<<<"H", "D", "F", "C", "B", "A", "N", "K", ".", "N", "S">>, 1770>>,
   <<<<"B", "A", "J", "F", "I", "N", "A", "N", "C", "E", ".", "N", "S">>, 6500>>,
   <<<<"I", "C", "I", "C", "I", "B", "A", "N", "K", ".", "N", "S">>, 1200>>,
   <<<<"B", "A", "J", "A", "J", "-", "A", "U", "T", "O", ".", "N", "S">>, 9500>>,
   <<<<"S", "A", "V", "A", "N", "I", "F", "I", "N", ".", "N", "S">>, 180>>,
   <<<<"A", "F", "F", "L", "E", ".", "N", "S">>, 1200>>,
   <<<<"L", "T", "I", "M", ".", "N", "S">>, 5800>>,
   <<<<"K", "P", "I", "T", "T", "E", "C", "H", ".", "N", "S">>, 1800>>,
   <<<<"T", "A", "T", "A", "T", "E", "C", "H", ".", "N", "S">>, 900>>,
   <<<<"B", "L", "S", "E", ".", "N", "S">>, 90>>,
   <<<<"T", "A", "N", "L", "A", ".", "N", "S">>, 480>>,
   <<<<"D", "M", "A", "R", "T", ".", "N", "S">>, 3500>>,
   <<<<"T", "A", "T", "A", "C", "O", "N", "S", "U", "M", ".", "N", "S">>, 850>>,
   <<<<"P", "I", "D", "I", "L", "I", "T", "E", ".", "N", "S">>, 2800>>,
   <<<<"T", "A", "T", "A", "P", "O", "W", "E", "R", ".", "N", "S">>, 350>>,
   <<<<"K", "P", "I", "G", "R", "E", "E", "N", ".", "N", "S">>, 200>>,
   <<<<"S", "U", "Z", "L", "O", "N", ".", "N", "S">>, 45>>,
   <<<<"G", "E", "N", "S", "O", "L", ".", "N", "S">>, 150>>,
   <<<<"H", "A", "R", "I", "O", "M", "P", "I", "P", "E", ".", "N", "S">>, 250>>,
   <<<<"A", "S", "T", "R", "A", "L", ".", "N", "S">>, 2200>>,
   <<<<"P", "O", "L", "Y", "C", "A", "B", ".", "N", "S">>, 4500>>,
   <<<<"C", "L", "E", "A", "N", "S", "C", "I", ".", "N", "S">>, 1650>>,
   <<<<"D", "E", "E", "P", "A", "K", "N", "T", "R", ".", "N", "S">>, 2650>>,
   <<<<"F", "I", "N", "E", "O", "R", "G", ".", "N", "S">>, 5200>>,
   <<<<"G", "R", "A", "V", "I", "T", "A", ".", "N", "S">>, 1450>>,
   <<<<"S", "B", "I", "L", "I", "F", "E", ".", "N", "S">>, 1580>>,
   <<<<"I", "N", "F", "Y", ".", "N", "S">>, 1450>>,
   <<<<"H", "A", "P", "P", "S", "T", "M", "N", "D", "S", ".", "N", "S">>, 920>>,
   <<<<"E", "A", "S", "E", "M", "Y", "T", "R", "I", "P", ".", "N", "S">>, 38>>}

basePrices == [k \in {row[1] : row \in basePricesTable} |->
                 (CHOOSE row \in basePricesTable : row[1] = k)[2]]

BasePriceDefaultHundred(symbol) ==
  IF symbol \in DOMAIN basePrices THEN basePrices[symbol] ELSE 100

\* basePrices[symbol] || 1000
BasePriceOf(symbol) ==
  IF symbol \in DOMAIN basePrices THEN basePrices[symbol] ELSE 1000

\* The branch of the if / else if on symbol.includes(...)
SectorOf(symbol) ==
  IF Includes(symbol, <<"T", "E", "C", "H">>)
       \/ Includes(symbol, <<"I", "N", "F", "Y">>)
       \/ Includes(symbol, <<"L", "T", "I", "M">>)
    THEN "tech"
  ELSE IF Includes(symbol, <<"B", "A", "N", "K">>)
       \/ Includes(symbol, <<"F", "I", "N", "A", "N", "C", "E">>)
    THEN "financial"
  ELSE "other"

\* Math.random() when the source yields numerator d: a value in [0, 1).
Random(d) == Frac(d, RandDen)

\* (change / basePrice) * 100
PercentOf(change, basePrice) == FMul(FDiv(change, Whole(basePrice)), Whole(100))

\* `₹${x.toFixed(0)} Cr`
Crores(x) == <<"₹", MathRound(x), " Cr">>

\* getFallbackStockData(symbol), called at time t, with draws the numerators
\* the random source yields, in the order Math.random() is called.
getFallbackStockData(symbol, draws, t) ==
  LET basePrice == BasePriceOf(symbol)
      volatility == Frac(3, 100)
      trend == FMul(FSub(Random(draws[1]), Frac(1, 2)), Frac(2, 100))
      randomComponent == FMul(FSub(Random(draws[2]), Frac(1, 2)), volatility)
      priceChange == FMul(Whole(basePrice), FAdd(trend, randomComponent))
      newPrice == FMax(FAdd(Whole(basePrice), priceChange),
                       FMul(Whole(basePrice), Frac(1, 2)))
      change == FSub(newPrice, Whole(basePrice))
      changePercent == PercentOf(change, basePrice)
      sector == SectorOf(symbol)
      first == FAdd(Whole(15), FMul(Random(draws[3]), Whole(25)))
      peRatio ==
        CASE sector = "tech" -> FAdd(Whole(20), FMul(Random(draws[4]), Whole(15)))
          [] sector = "financial" -> FAdd(Whole(10), FMul(Random(draws[4]), Whole(15)))
          [] OTHER -> first
      n == IF sector = "other" THEN 3 ELSE 4
  IN [symbol |-> symbol,
      price |-> RoundTo(newPrice, 100),
      change |-> RoundTo(change, 100),
      changePercent |-> RoundTo(changePercent, 100),
      peRatio |-> RoundTo(peRatio, 10),
      marketCap |-> Crores(FAdd(FMul(Random(draws[n + 1]), Whole(100000)), Whole(10000))),
      earnings |-> Crores(FAdd(FMul(Random(draws[n + 2]), Whole(5000)), Whole(500))),
      revenue |-> Crores(FAdd(FMul(Random(draws[n + 3]), Whole(20000)), Whole(2000))),
      lastUpdated |-> t]

\* -------------------------------------------------- fallback specification
FallbackSymbols ==
  {<<"K", "P", "I", "T", "T", "E", "C", "H", ".", "N", "S">>,
   <<"I", "N", "F", "Y", ".", "N", "S">>,
   <<"L", "T", "I", "M", ".", "N", "S">>,
   <<"H", "D", "F", "C", "B", "A", "N", "K", ".", "N", "S">>,
   <<"B", "A", "J", "F", "I", "N", "A", "N", "C", "E", ".", "N", "S">>,
   <<"E", "A", "S", "E", "M", "Y", "T", "R", "I", "P", ".", "N", "S">>,
   <<"S", "A", "V", "A", "N", "I", "F", "I", "N", ".", "N", "S">>,
   <<"F", "I", "N", "T", "E", "C", "H", "B", "A", "N", "K", ".", "N", "S">>}

\* What the random source yields: the ends of [0, 1), the midpoint and values
\* around them (price walk), the ends and values next to the top (ratio),
\* the ends (the filler strings).
PriceDraws == {0, 250, 500, 513, 750, RandDen - 1}
RatioDraws == {0, 500, 996, RandDen - 1}
FillerDraws == {0, RandDen - 1}

DrawSeqs ==
  {<<a, b, c, d, e, f, g>> :
     a \in PriceDraws, b \in PriceDraws, c \in RatioDraws, d \in RatioDraws,
     e \in FillerDraws, f \in FillerDraws, g \in FillerDraws}

FallbackInit ==
  /\ now = 0
  /\ cache = EmptyMap
  /\ calls = <<>>
  /\ read = Undefined
  /\ epoch = 0
  /\ fm = IdleFm
  /\ norm = [pc |-> "idle"]
  /\ \E symbol \in FallbackSymbols, draws \in DrawSeqs :
       fallback = [pc |-> "call", symbol |-> symbol, draws |-> draws,
                   out |-> Undefined]

GetFallbackStockData ==
  /\ fallback.pc = "call"
  /\ fallback' = [fallback EXCEPT
        !.pc = "done",
        !.out = getFallbackStockData(fallback.symbol, fallback.draws, now)]
  /\ UNCHANGED <<now, cache, calls, read, epoch, fm, norm>>

FallbackNext == GetFallbackStockData

SpecFallback == FallbackInit /\ [][FallbackNext]_vars

\* ------------------------------------------------------ fallback claims
FallbackDone == fallback.pc = "done"

\* The static table value, or 1000 for a symbol the table does not have.
TableBase(symbol) ==
  IF symbol \in DOMAIN basePrices THEN basePrices[symbol] ELSE 1000

HasAny(symbol, needles) == \E needle \in needles : Includes(symbol, needle)

TechNeedles == {<<"T", "E", "C", "H">>, <<"I", "N", "F", "Y">>, <<"L", "T", "I", "M">>}

BankNeedles == {<<"B", "A", "N", "K">>, <<"F", "I", "N", "A", "N", "C", "E">>}

\* lo <= x < hi, for a fraction x and whole numbers lo and hi
InHalfOpen(x, lo, hi) == ~FLess(x, Whole(lo)) /\ FLess(x, Whole(hi))

\* C11: the returned (one-decimal) peRatio lies in [20,35) for a symbol that
\* contains TECH, INFY or LTIM, in [10,25) for one that contains BANK or
\* FINANCE and no technology substring, and in [15,40) for any other symbol.
C11_PeRatioHalfOpenRanges ==
  FallbackDone =>
    LET symbol == fallback.symbol
        pe == fallback.out.peRatio
    IN IF HasAny(symbol, TechNeedles) THEN InHalfOpen(pe, 20, 35)
       ELSE IF HasAny(symbol, BankNeedles) THEN InHalfOpen(pe, 10, 25)
       ELSE InHalfOpen(pe, 15, 40)

C13_PercentOfReturnedChange ==
  FallbackDone =>
    LET basePrice == TableBase(fallback.symbol)
        out == fallback.out
    IN /\ FSub(Frac(out.price[1], out.price[2]), Whole(basePrice))
            = Frac(out.change[1], out.change[2])
       /\ out.changePercent[1]
            = MathRound(FMul(FMul(FDiv(Frac(out.change[1], out.change[2]),
                                       Whole(basePrice)),
                                  Whole(100)),
                             Whole(100)))


\* ----------------------------------------------------------- cache claims
HasShape(response, sh) == sh \in DOMAIN response.fields

Returned(c) == calls[c].pc = "returned"

\* The number of upstream lookups calls i and j issued together.
LookupsOf(i, j) ==
  (IF calls[i].looked THEN 1 ELSE 0) + (IF calls[j].looked THEN 1 ELSE 0)

\* C1 as stated: any two calls for one symbol made less than one strict TTL
\* apart perform exactly one upstream lookup in total.
C1_TwoCallsOneLookup ==
  \A i \in DOMAIN calls : \A j \in DOMAIN calls :
    (/\ i < j
     /\ calls[i].symbol = calls[j].symbol
     /\ Returned(i) /\ Returned(j)
     /\ calls[j].start - calls[i].start < CACHE_DURATION)
    => LookupsOf(i, j) = 1

\* Call i missed the cache, its lookup returned a record (cached when it
\* completed, at the time stamped into the record), and the cache was not
\* cleared since.
CompletedWithRecord(i) ==
  /\ Returned(i)
  /\ calls[i].looked
  /\ calls[i].result # Null
  /\ calls[i].endEpoch = epoch

\* C1 as amended: when a call that missed the cache has completed with a
\* record cached at time T, a call for the same symbol made after that, at a
\* time < T + 15000 and with no clearCache in between, issues no lookup, so
\* the two perform exactly one lookup in total.
C1_SecondCallServedFromCache ==
  [][\A i \in DOMAIN calls : \A j \in DOMAIN calls' \ DOMAIN calls :
       (/\ CompletedWithRecord(i)
        /\ calls'[j].symbol = calls[i].symbol
        /\ now - calls[i].result.lastUpdated < CACHE_DURATION)
       => (~calls'[j].looked /\ calls'[j].pc = "returned")]_vars

C1_Witness ==
  \E i \in DOMAIN calls : \E j \in DOMAIN calls :
    /\ i < j
    /\ calls[i].symbol = calls[j].symbol
    /\ CompletedWithRecord(i)
    /\ calls[j].start = calls[i].result.lastUpdated + CACHE_DURATION - 1
    /\ Returned(j)
    /\ LookupsOf(i, j) = 1

\* C2: a call that finds the symbol's entry, written at time T, is served
\* from it without a lookup when made at a time < T + 15000, and issues a
\* lookup when made at a time >= T + 15000 (equality included).
C2_StrictTtlBoundary ==
  \A c \in DOMAIN calls :
    calls[c].cached # Undefined =>
      LET T == calls[c].cached.timestamp
      IN /\ calls[c].start < T + 15000 =>
              (~calls[c].looked /\ calls[c].result = calls[c].cached.data)
         /\ calls[c].start >= T + 15000 => calls[c].looked

C2_Witness ==
  \E c \in DOMAIN calls :
    /\ calls[c].cached # Undefined
    /\ calls[c].start = calls[c].cached.timestamp + 15000
    /\ calls[c].looked

\* C3: getCachedData returns the entry's record while the entry is younger
\* than 30000 (twice the strict TTL), null from age 30000 on, and null when
\* the symbol has no entry.
C3_RelaxedTtl ==
  read # Undefined =>
    IF read.cached = Undefined
      THEN read.result = Null
      ELSE /\ read.at < read.cached.timestamp + 30000 =>
                read.result = read.cached.data
           /\ read.at >= read.cached.timestamp + 30000 => read.result = Null

C3_Witness ==
  /\ read # Undefined
  /\ read.cached # Undefined
  /\ read.at = read.cached.timestamp + 30000 - 1
  /\ read.result = read.cached.data
  /\ read.result # Null

\* The lookup of a call failed (no payload) or normalization gave no record.
NoRecord(symbol, json) ==
  \/ ~Truthy(json)
  \/ (~HasShape(json, "knowledge_graph") /\ ~HasShape(json, "summary"))

\* C5: every call of fetchStockData ends by returning (never by throwing);
\* when its lookup delivered no payload or normalization gave no record it
\* returns null and leaves the cache exactly as it was.
C5_FailureReturnsNullCacheUntouched ==
  [][\A c \in DOMAIN calls :
       (calls[c].pc = "await" /\ calls'[c].pc # "await") =>
         /\ calls'[c].pc = "returned"
         /\ NoRecord(calls[c].symbol, calls'[c].response) =>
              (calls'[c].result = Null /\ cache' = cache)]_vars

\* A failed call for a symbol whose entry is in the cache.
C5_Witness ==
  \E c \in DOMAIN calls :
    /\ Returned(c)
    /\ calls[c].looked
    /\ calls[c].result = Null
    /\ calls[c].symbol \in DOMAIN cache

\* C7: from clearCache on, getCachedData(X) returns null for every symbol X
\* until a successful fetch of X completes after the clear.
C7_ClearedReadsAbsent ==
  \A X \in Symbols :
    (epoch > 0 /\ ~\E c \in DOMAIN calls :
                     calls[c].symbol = X /\ CompletedWithRecord(c))
    => GetCachedResult(X, now) = Null

\* getCachedData returned null after a clear for a symbol whose record,
\* cached before the clear, would still have been served.
C7_Witness ==
  /\ read # Undefined
  /\ read.epoch > 0
  /\ read.result = Null
  /\ \E c \in DOMAIN calls :
       /\ calls[c].symbol = read.symbol
       /\ Returned(c) /\ calls[c].result # Null
       /\ calls[c].endEpoch < read.epoch
       /\ read.at < calls[c].result.lastUpdated + CACHE_DURATION

\* ----------------------------------------------------------- batch claims
Range(q) == {q[k] : k \in DOMAIN q}

\* ceil(n / 3)
CeilThird(n) == (n + 2) \div 3

\* C4 as stated: a call over N symbols issues exactly ceil(N/3) batches and
\* returns no sooner than N*300 + (ceil(N/3)-1)*1000 after it was called.
C4_BatchesAndPacing ==
  fm.pc = "returned" =>
    LET N == Len(fm.symbols)
    IN /\ fm.batches = CeilThird(N)
       /\ fm.end - fm.start >= N * 300 + (CeilThird(N) - 1) * 1000

\* The calls of fetchStockData made by fetchMultipleStocks that returned a
\* record.
Resolved == {c \in DOMAIN calls :
               calls[c].owner # 0 /\ Returned(c) /\ calls[c].result # Null}

\* C6: the mapping holds a key s exactly when s is in the input and a fetch
\* of s made by this call returned a record; the value under s is a record
\* with symbol s; a symbol whose fetches all returned null is absent.
C6_OnlySuccessesInMapping ==
  /\ DOMAIN fm.results = {calls[c].symbol : c \in Resolved}
  /\ DOMAIN fm.results \subseteq Range(fm.symbols)
  /\ \A s \in DOMAIN fm.results :
       /\ fm.results[s] # Null
       /\ fm.results[s].symbol = s
       /\ \E c \in Resolved : calls[c].symbol = s /\ calls[c].result = fm.results[s]

\* The call returned with one input symbol in the mapping and another, whose
\* fetch returned null, absent.
C6_Witness ==
  /\ fm.pc = "returned"
  /\ \E s \in Range(fm.symbols) : s \in DOMAIN fm.results
  /\ \E c \in DOMAIN calls :
       /\ Returned(c) /\ calls[c].result = Null
       /\ calls[c].symbol \notin DOMAIN fm.results

\* ----------------------------------------------------- cache entry claims
\* C17: the cache maps a symbol to one entry whose record is a record of that
\* symbol; a fetch that returns a record leaves exactly that record and the
\* time of its completion as the symbol's entry; and no step other than
\* clearCache takes an entry away.
C17_EntriesOverwrittenNeverRemoved ==
  [][/\ \A s \in DOMAIN cache' :
          cache'[s].data # Null /\ cache'[s].data.symbol = s
     /\ \A c \in DOMAIN calls :
          (calls[c].pc = "await" /\ calls'[c].pc = "returned"
             /\ calls'[c].result # Null) =>
            cache'[calls[c].symbol] = [data |-> calls'[c].result,
                                       timestamp |-> now]
     /\ epoch' = epoch => DOMAIN cache \subseteq DOMAIN cache']_vars

\* An entry twice the strict TTL old is still in the cache after a later
\* fetch of its symbol failed and a relaxed read of it returned null.
C17_Witness ==
  \E c \in DOMAIN calls :
    LET s == calls[c].symbol
    IN /\ s \in DOMAIN cache
       /\ now - cache[s].timestamp >= CACHE_DURATION * 2
       /\ Returned(c) /\ calls[c].looked /\ calls[c].result = Null
       /\ calls[c].start > cache[s].timestamp
       /\ read # Undefined /\ read.symbol = s /\ read.result = Null

\* ------------------------------------------------------ concurrency claims
\* The batch (numbered from 0) that started call c of fetchMultipleStocks.
BatchNo(c) == (calls[c].owner - 1) \div batchSize

SameBatch(c, d) ==
  calls[c].owner # 0 /\ calls[d].owner # 0 /\ BatchNo(c) = BatchNo(d)

\* C14: when a lookup for symbol A completes, every other symbol B keeps its
\* cache entry as it was (same record, same timestamp), and gains none.
C14_CompletionTouchesOwnEntryOnly ==
  [][\A c \in DOMAIN calls :
       (calls[c].pc = "await" /\ calls'[c].pc = "returned") =>
         \A B \in Symbols \ {calls[c].symbol} :
           /\ (B \in DOMAIN cache') = (B \in DOMAIN cache)
           /\ B \in DOMAIN cache => cache'[B] = cache[B]]_vars

\* Two lookups of one batch, for different symbols, completed at different
\* times, and both entries are in the cache as their own fetch wrote them.
C14_Witness ==
  \E c, d \in DOMAIN calls :
    /\ SameBatch(c, d)
    /\ calls[c].symbol # calls[d].symbol
    /\ calls[c].looked /\ calls[d].looked
    /\ CompletedWithRecord(c) /\ CompletedWithRecord(d)
    /\ calls[c].result.lastUpdated < calls[d].result.lastUpdated
    /\ cache[calls[c].symbol] = [data |-> calls[c].result,
                                 timestamp |-> calls[c].result.lastUpdated]
    /\ cache[calls[d].symbol] = [data |-> calls[d].result,
                                 timestamp |-> calls[d].result.lastUpdated]

\* The calls that batch b started for symbol s.
CallsFor(b, s) ==
  {c \in DOMAIN calls :
     calls[c].owner # 0 /\ BatchNo(c) = b /\ calls[c].symbol = s}

\* How often s occurs in batch b of the input.
Occurrences(b, s) ==
  Cardinality({k \in DOMAIN BatchOf(fm.symbols, b * batchSize) :
                 BatchOf(fm.symbols, b * batchSize)[k] = s})

\* C15: a symbol that has no strictly fresh entry when its batch starts gets
\* one upstream lookup for each of its occurrences in that batch.
C15_OneLookupPerOccurrence ==
  \A b \in 0..(fm.batches - 1), s \in Symbols :
    LET cs == CallsFor(b, s)
    IN (\E c \in cs : ~CacheHit(calls[c].cached, calls[c].start)) =>
         Cardinality({c \in cs : calls[c].looked}) = Occurrences(b, s)

\* A batch of three occurrences of one symbol with three lookups in flight.
C15_Witness ==
  /\ Len(calls) >= batchSize
  /\ \A c \in 1..batchSize :
       /\ calls[c].symbol = calls[1].symbol
       /\ calls[c].owner = c
       /\ calls[c].looked
       /\ calls[c].pc = "await"

\* A record without its completion time.
Content(record) == [f \in DOMAIN record \ {"lastUpdated"} |-> record[f]]

\* The fetch of symbol s latest in the input among those that returned a
\* record: the one whose record the mapping holds when the lookups complete
\* in input order.
LastResolved(s) ==
  CHOOSE c \in Resolved :
    /\ calls[c].symbol = s
    /\ \A d \in Resolved : calls[d].symbol = s => calls[d].owner <= calls[c].owner

\* C16: the returned mapping does not depend on the order in which the
\* lookups of a batch complete: for each symbol it holds what it holds when
\* they complete in input order.
C16_MappingOrderIndependent ==
  fm.pc = "returned" =>
    \A s \in DOMAIN fm.results :
      Content(fm.results[s]) = Content(calls[LastResolved(s)].result)

\* ------------------------------------------------------------ pacing claim
\* The lookups of the fetchMultipleStocks call that have not been answered.
Outstanding == {c \in DOMAIN calls : calls[c].owner # 0 /\ calls[c].pc = "await"}

\* What holds of every state: at most three lookups are outstanding; every
\* fetch of an earlier batch has completed; a fetch of the next batch starts
\* no sooner than 300 + 1000 after a fetch of this batch started and, when
\* that fetch stored a record, after it completed; the 1000 delay is pending
\* only while symbols remain.
PacingInvariant ==
  /\ Cardinality(Outstanding) <= batchSize
  /\ \A c, d \in DOMAIN calls :
       (calls[c].owner # 0 /\ calls[d].owner # 0 /\ BatchNo(c) > BatchNo(d)) =>
         /\ Returned(d)
         /\ calls[c].start >= calls[d].start + RequestDelay + BatchDelay
         /\ (calls[d].looked /\ calls[d].result # Null) =>
              calls[c].start >= calls[d].result.lastUpdated + RequestDelay + BatchDelay
  /\ fm.pc = "gap" => fm.i + batchSize < Len(fm.symbols)

\* What holds of every step: a fetch that completes arms a delay of 300 from
\* that instant; the 1000 delay is armed, from that instant, when the last
\* 300 delay of a batch that is not the last has elapsed and every fetch of
\* the batch has completed; after the last batch the call returns instead; a
\* later batch starts only when the 1000 delay has elapsed.
PacingStep ==
  /\ \A k \in DOMAIN fm.slots :
       (fm.pc = "batch" /\ fm'.pc = "batch" /\ fm'.i = fm.i
          /\ fm.slots[k].pc = "fetch" /\ fm'.slots[k].pc # "fetch") =>
         fm'.slots[k] = [pc |-> "delay", deadline |-> now + RequestDelay]
  /\ (fm.pc = "batch" /\ fm'.pc # "batch") =>
       /\ \A k \in DOMAIN fm.slots :
            \/ fm.slots[k].pc = "done"
            \/ fm.slots[k].pc = "delay" /\ now >= fm.slots[k].deadline
       /\ Outstanding = {}
       /\ IF fm.i + batchSize < Len(fm.symbols)
            THEN fm'.pc = "gap" /\ fm'.timer = now + BatchDelay
            ELSE fm'.pc = "returned" /\ fm'.end = now
  /\ (fm.batches >= 1 /\ fm'.batches # fm.batches) =>
       /\ fm.pc = "gap" /\ now >= fm.timer
       /\ fm'.batches = fm.batches + 1 /\ fm'.i = fm.i + batchSize

\* C18: at most 3 lookups of one call are outstanding; no fetch of batch k+1
\* starts before every fetch of batch k has completed, each of its 300
\* delays has elapsed and the 1000 delay after them has elapsed; no 1000
\* delay follows the last batch.
C18_BatchesPacedAndBounded == []PacingInvariant /\ [][PacingStep]_vars

\* A call over four symbols returned: one fetch of the first batch failed,
\* the second batch started at 300 + 1000, and the call returned 300 after
\* the last fetch, with no further delay.
C18_Witness ==
  /\ fm.pc = "returned"
  /\ Len(fm.symbols) = batchSize + 1
  /\ \E c \in 1..batchSize : calls[c].looked /\ calls[c].result = Null
  /\ calls[batchSize + 1].start = RequestDelay + BatchDelay
  /\ fm.end = calls[batchSize + 1].start + RequestDelay

\* ------------------------------------------------------- termination claim
Running == fm.pc \in {"batch", "gap"}

\* Every position of the input had its fetch, and every fetch returned.
AllFetched ==
  /\ Len(calls) = Len(fm.symbols)
  /\ \A c \in DOMAIN calls :
       calls[c].owner = c /\ calls[c].symbol = fm.symbols[c] /\ Returned(c)

\* C19: with every lookup answered (payload or failure) and time advancing,
\* a running fetchMultipleStocks call returns; and when it has returned,
\* every symbol of every batch was fetched, whichever fetches failed.
C19_EventuallyReturnsAllFetched ==
  /\ Running ~> (fm.pc = "returned")
  /\ [](fm.pc = "returned" => AllFetched)

\* A call over two batches returned although its first batch held a fetch
\* that failed next to one that returned a record, and the fetch of the
\* second batch failed as well.
C19_Witness ==
  /\ fm.pc = "returned"
  /\ Len(fm.symbols) = batchSize + 1
  /\ AllFetched
  /\ \E c, d \in 1..batchSize :
       /\ calls[c].looked /\ calls[c].result = Null
       /\ calls[d].looked /\ calls[d].result # Null
  /\ calls[batchSize + 1].looked /\ calls[batchSize + 1].result = Null

\* ---------------------------------------------------- two-threshold claim
\* C20: whenever fetchStockData(s) would be served from the cache, that is
\* the entry of s is strictly fresh, getCachedData(s) returns the record of
\* that entry, and so is not null.
C20_StrictHitImpliesRelaxedHit ==
  \A s \in Symbols :
    CacheHit(CacheGet(s), now) =>
      /\ GetCachedResult(s, now) = cache[s].data
      /\ GetCachedResult(s, now) # Null

\* A relaxed read returned the record of an entry one unit short of the
\* strict TTL, which a fetch at that instant would be served from.
C20_Witness ==
  /\ read # Undefined
  /\ read.at = now
  /\ read.cached # Undefined
  /\ now - read.cached.timestamp = CACHE_DURATION - 1
  /\ CacheHit(CacheGet(read.symbol), now)
  /\ read.result = read.cached.data

\* ------------------------------------------------------ normalizer claims
\* The block the claims call the selected shape: the detailed one when the
\* response has it, else the summary one.
SelectedShape(response) ==
  IF HasShape(response, "knowledge_graph")
    THEN response.fields["knowledge_graph"]
    ELSE response.fields["summary"]

Supplies(block, f) == f \in DOMAIN block.fields

\* C8: the normalizer returns null exactly when the raw response has neither
\* the detailed nor the summary shape, and otherwise a record that carries
\* the requested symbol; it has no other outcome.
C8_NullIffNoShape ==
  norm.pc = "done" =>
    /\ (norm.out = Null) <=>
         (~HasShape(norm.response, "knowledge_graph")
            /\ ~HasShape(norm.response, "summary"))
    /\ norm.out # Null => norm.out.symbol = norm.symbol

C8_Witness ==
  /\ norm.pc = "done"
  /\ HasShape(norm.response, "summary")
  /\ ~HasShape(norm.response, "knowledge_graph")
  /\ norm.out # Null
  /\ norm.out.symbol = norm.symbol

\* C9: price, change and changePercent are each read from the detailed shape
\* when the response has that shape, else from the summary shape, and each
\* field the shape read from does not supply is 0, whatever the other
\* fields are.
NumericOf(block, f) == IF Supplies(block, f) THEN block.fields[f] ELSE Num(0)

C9_FieldsFromSelectedShape ==
  (norm.pc = "done" /\ norm.out # Null) =>
    LET data == SelectedShape(norm.response)
    IN /\ norm.out.price = NumericOf(data, "price")
       /\ norm.out.change = NumericOf(data, "change")
       /\ norm.out.changePercent = NumericOf(data, "change_percent")

\* Both shapes present and different; price supplied, change not.
C9_Witness ==
  /\ norm.pc = "done"
  /\ HasShape(norm.response, "knowledge_graph")
  /\ HasShape(norm.response, "summary")
  /\ Supplies(norm.response.fields["knowledge_graph"], "price")
  /\ ~Supplies(norm.response.fields["knowledge_graph"], "change")
  /\ Supplies(norm.response.fields["summary"], "change")
  /\ norm.out # Null
  /\ norm.out.price = Num(101)
  /\ norm.out.change = Num(0)

\* C10: peRatio, marketCap and revenue are the financials block's value
\* whenever that block supplies the field, else the selected shape's value,
\* else undefined; earnings is financials' net_income when supplied, else the
\* selected shape's earnings.
Preferred(response, finField, dataField) ==
  LET data == SelectedShape(response)
  IN IF HasShape(response, "financials")
          /\ Supplies(response.fields["financials"], finField)
       THEN response.fields["financials"].fields[finField]
       ELSE IF Supplies(data, dataField) THEN data.fields[dataField]
       ELSE Undefined

C10_FinancialsPreferred ==
  (norm.pc = "done" /\ norm.out # Null) =>
    /\ norm.out.peRatio = Preferred(norm.response, "pe_ratio", "pe_ratio")
    /\ norm.out.marketCap = Preferred(norm.response, "market_cap", "market_cap")
    /\ norm.out.revenue = Preferred(norm.response, "revenue", "revenue")
    /\ norm.out.earnings = Preferred(norm.response, "net_income", "earnings")

====
